---- MODULE Spec2Model ----
(***************************************************************************)
(* Order notification system of                                            *)
(* src/Examenes/Examen02/Code/ejercicio1_tienda_online.py:                 *)
(* validator chain, notifier factory, decorators, composite, observers     *)
(* and OrderNotificationSystem.process_order.                              *)
(*                                                                         *)
(* A Python dict is a TLA+ function whose DOMAIN is the dict's key set, so *)
(* d['k'] on a missing key (KeyError) and d.get('k') (None) are told       *)
(* apart.  An exception is the name of its class; "" means no exception.   *)
(* The 'message' of a result is the tuple of the values the f-string       *)
(* interpolates.  The 'timestamp' entry of a result is the wall clock; no  *)
(* code path reads it, and it is left out of the result dicts.             *)
(***************************************************************************)
EXTENDS Integers, Sequences, FiniteSets, TLC

VARIABLES
    notifiers,            \* NotificationFactory._notifiers: kind -> handler
    notifications_sent,   \* NotificationLogger.notifications_sent
    observers,            \* OrderNotificationSystem._observers
    notification_count,   \* AnalyticsObserver.notification_count
    audit_log,            \* AuditObserver.audit_log
    call,                 \* what the last operation was given and did
    config,               \* NotificationConfig: class attributes and objects
    libros,               \* SistemaBiblioteca.libros
    busqueda,             \* what the last buscar_libro was given and returned
    consulta,             \* what the last BuscadorPeliculas.buscar did
    prestamos,            \* SistemaBiblioteca.prestamos
    contador_libro,       \* SistemaBiblioteca.contador_libro
    contador_prestamo,    \* SistemaBiblioteca.contador_prestamo
    efectos,              \* which library class runs; its saves and notices
    operacion             \* what the last library operation was and returned

vars == <<notifiers, notifications_sent, observers, notification_count,
          audit_log, call, config, libros, busqueda, consulta, prestamos,
          contador_libro, contador_prestamo, efectos, operacion>>

\* The order notification system, and what lies outside it.
order_system == <<notifiers, notifications_sent, observers,
                  notification_count, audit_log, call>>

loans == <<prestamos, contador_libro, contador_prestamo, efectos, operacion>>

library == <<libros, busqueda, loans>>

movies == <<consulta>>

outside == <<config, library, movies>>

(***************************************************************************)
(* Bounds of the model.                                                    *)
(***************************************************************************)
MaxTypes == 2      \* longest notification_types list handed to process_order
MaxHistory == 2    \* no call that could make the history longer than this
MaxFails == 3      \* most consecutive failures of the external transport
MaxConstructions == 3   \* most NotificationConfig() calls in one run
MaxLibros == 2     \* longest list of books searched
MaxResultados == 2  \* longest 'results' list the movie API answers with
MaxPrestamos == 2   \* most loans made in one run of the library

(***************************************************************************)
(* Values.                                                                 *)
(***************************************************************************)
NONE == "None"                       \* Python's None
EmptyDict == <<>>                    \* Python's {}

Get(d, k) == IF k \in DOMAIN d THEN d[k] ELSE NONE       \* d.get(k)
Falsy(v) == v = NONE \/ v = ""                           \* not v, v a str or None

IsPrefix(s, t) == Len(s) <= Len(t) /\ SubSeq(t, 1, Len(s)) = s

(***************************************************************************)
(* Handlers (INotifier implementations) as a tree of records.              *)
(*   tag: "email" | "sms" | "push"   the three built-in notifiers          *)
(*        "external"  an INotifier supplied by the caller, whose send      *)
(*                    succeeds or raises as its transport decides          *)
(*        "retry" | "logging"        decorators around members[1]          *)
(*        "composite"                CompositeNotifier over members        *)
(***************************************************************************)
Handler(tag, max, name, members) ==
    [tag |-> tag, max |-> max, name |-> name, members |-> members]

EmailNotifier == Handler("email", 0, "", <<>>)
SMSNotifier == Handler("sms", 0, "", <<>>)
PushNotifier == Handler("push", 0, "", <<>>)
ExternalNotifier == Handler("external", 0, "", <<>>)
RetryDecorator(notifier, max_retries) == Handler("retry", max_retries, "", <<notifier>>)
LoggingDecorator(notifier) == Handler("logging", 0, "", <<notifier>>)
CompositeNotifier(name, members) == Handler("composite", 0, name, members)

(***************************************************************************)
(* The built-in notifiers' send.  Each returns [exc, value].               *)
(***************************************************************************)
Raise(e) == [exc |-> e, value |-> EmptyDict]
Return(v) == [exc |-> "", value |-> v]

EmailSend(customer, order_id, total) ==
    IF "name" \notin DOMAIN customer \/ "email" \notin DOMAIN customer
    THEN Raise("KeyError")
    ELSE Return([type |-> "email", to |-> customer["email"],
                 message |-> <<"email", customer["name"], order_id, total>>])

\* An SMS handler that reports the e-mail address as its recipient.
SMSSendBuggy(customer, order_id, total) ==
    IF "phone" \notin DOMAIN customer
    THEN Raise("KeyError")
    ELSE Return([type |-> "sms", to |-> Get(customer, "email"),
                 message |-> <<"sms", order_id, total>>])

SMSSend(customer, order_id, total) ==
    IF "phone" \notin DOMAIN customer
    THEN Raise("KeyError")
    ELSE Return([type |-> "sms", to |-> customer["phone"],
                 message |-> <<"sms", order_id, total>>])

PushSend(customer, order_id, total) ==
    IF "device_id" \notin DOMAIN customer
    THEN Raise("KeyError")
    ELSE Return([type |-> "push", to |-> customer["device_id"],
                 message |-> <<"push", order_id, total>>])

\* The caller-supplied notifier: its transport raises the exceptions of
\* `script`, one per invocation, and delivers once the script is used up.
ExternalSend(script) ==
    IF script = <<>>
    THEN Return([type |-> "external", to |-> NONE])
    ELSE Raise(Head(script))

(***************************************************************************)
(* send, by structural recursion over the handler.                         *)
(* env = [script, sends]: the external transport's remaining failures and  *)
(* the log of every send invocation made so far, in completion order.      *)
(* A log entry is [handler, script, exc, value, calls]: the handler        *)
(* invoked, the transport's script when it was invoked, how it ended, and  *)
(* the [exc, value] of each send it invoked directly, in order.            *)
(* Send returns [exc, value, env].                                         *)
(***************************************************************************)
Outcome(r) == [exc |-> r.exc, value |-> r.value]

Done(h, env0, r, calls, env) ==
    [exc |-> r.exc, value |-> r.value,
     env |-> [script |-> env.script,
              sends |-> Append(env.sends,
                               [handler |-> h, script |-> env0.script,
                                exc |-> r.exc, value |-> r.value,
                                calls |-> calls])]]

RECURSIVE Send(_, _, _, _, _)
RECURSIVE RetryLoop(_, _, _, _, _, _, _, _)
RECURSIVE CompositeLoop(_, _, _, _, _, _, _, _, _)

\* A decorator that gives up at the first failure.
RetryLoopNoRetry(h, attempt, calls, customer, order_id, total, env0, env) ==
    IF attempt >= h.max
    THEN Done(h, env0, Return(EmptyDict), calls, env)
    ELSE LET r == Send(h.members[1], customer, order_id, total, env)
             cs == Append(calls, Outcome(r))
         IN  Done(h, env0, r, cs, r.env)

\* The last attempt compared with max_retries: its failure is swallowed.
RetryLoopBuggy(h, attempt, calls, customer, order_id, total, env0, env) ==
    IF attempt >= h.max
    THEN Done(h, env0, Return(EmptyDict), calls, env)
    ELSE LET r == Send(h.members[1], customer, order_id, total, env)
             cs == Append(calls, Outcome(r))
         IN  IF r.exc = ""
             THEN Done(h, env0, r, cs, r.env)
             ELSE IF attempt = h.max
                  THEN Done(h, env0, r, cs, r.env)
                  ELSE RetryLoop(h, attempt + 1, cs, customer, order_id,
                                 total, env0, r.env)

\* RetryDecorator.send: for attempt in range(max_retries): return the first
\* send that does not raise; re-raise on the last attempt; {} when the loop
\* ends without a return.
RetryLoop(h, attempt, calls, customer, order_id, total, env0, env) ==
    IF attempt >= h.max
    THEN Done(h, env0, Return(EmptyDict), calls, env)
    ELSE LET r == Send(h.members[1], customer, order_id, total, env)
             cs == Append(calls, Outcome(r))
         IN  IF r.exc = ""
             THEN Done(h, env0, r, cs, r.env)
             ELSE IF attempt = h.max - 1
                  THEN Done(h, env0, r, cs, r.env)
                  ELSE RetryLoop(h, attempt + 1, cs, customer, order_id,
                                 total, env0, r.env)

\* results.insert(0, ...): the members' results in reverse.
CompositeLoopBuggy(h, i, results, calls, customer, order_id, total, env0, env) ==
    IF i > Len(h.members)
    THEN Done(h, env0,
              Return([type |-> "composite", group |-> h.name,
                      results |-> results]),
              calls, env)
    ELSE LET r == Send(h.members[i], customer, order_id, total, env)
             cs == Append(calls, Outcome(r))
         IN  IF r.exc = ""
             THEN CompositeLoop(h, i + 1, <<r.value>> \o results, cs,
                                customer, order_id, total, env0, r.env)
             ELSE Done(h, env0, r, cs, r.env)

\* CompositeNotifier.send: for notifier in self._notifiers:
\* results.append(notifier.send(...)); a member's exception propagates.
CompositeLoop(h, i, results, calls, customer, order_id, total, env0, env) ==
    IF i > Len(h.members)
    THEN Done(h, env0,
              Return([type |-> "composite", group |-> h.name,
                      results |-> results]),
              calls, env)
    ELSE LET r == Send(h.members[i], customer, order_id, total, env)
             cs == Append(calls, Outcome(r))
         IN  IF r.exc = ""
             THEN CompositeLoop(h, i + 1, Append(results, r.value), cs,
                                customer, order_id, total, env0, r.env)
             ELSE Done(h, env0, r, cs, r.env)

\* LoggingDecorator.send: the wrapped send's result or exception, unchanged
\* (get_notification_type, which it prints, raises in no implementation).
LoggingSend(h, customer, order_id, total, env) ==
    LET r == Send(h.members[1], customer, order_id, total, env)
    IN  Done(h, env, r, <<Outcome(r)>>, r.env)

Send(h, customer, order_id, total, env) ==
    CASE h.tag = "email" ->
           Done(h, env, EmailSend(customer, order_id, total), <<>>, env)
      [] h.tag = "sms" ->
           Done(h, env, SMSSend(customer, order_id, total), <<>>, env)
      [] h.tag = "push" ->
           Done(h, env, PushSend(customer, order_id, total), <<>>, env)
      [] h.tag = "external" ->
           Done(h, env, ExternalSend(env.script), <<>>,
                [env EXCEPT !.script = IF env.script = <<>> THEN <<>>
                                       ELSE Tail(env.script)])
      [] h.tag = "retry" ->
           RetryLoop(h, 0, <<>>, customer, order_id, total, env, env)
      [] h.tag = "logging" ->
           LoggingSend(h, customer, order_id, total, env)
      [] h.tag = "composite" ->
           CompositeLoop(h, 1, <<>>, <<>>, customer, order_id, total, env, env)

(***************************************************************************)
(* The validator chain.  A chain is the sequence of its linked validators; *)
(* _call_next past the last link returns True.  validate returns           *)
(* [ok, trace]: the verdict and the checks that reported, in order.        *)
(***************************************************************************)
\* "is not None" in place of truthiness
OrderIdCheckBuggy(order_data) == Get(order_data, "order_id") /= NONE

OrderIdCheck(order_data) == ~Falsy(Get(order_data, "order_id"))

CustomerCheck(order_data) ==
    LET customer == IF "customer" \in DOMAIN order_data
                    THEN order_data["customer"] ELSE EmptyDict
    IN  ~(Falsy(Get(customer, "name")) \/ Falsy(Get(customer, "email")))

\* A total check that lets a total of zero through.
TotalCheckBuggy(order_data) ==
    ~((IF "total" \in DOMAIN order_data THEN order_data["total"] ELSE -1) < 0)

TotalCheck(order_data) ==
    ~((IF "total" \in DOMAIN order_data THEN order_data["total"] ELSE 0) <= 0)

Check(validator, order_data) ==
    CASE validator = "order_id" -> OrderIdCheck(order_data)
      [] validator = "customer" -> CustomerCheck(order_data)
      [] validator = "total" -> TotalCheck(order_data)

RECURSIVE validate(_, _, _)
\* A link that never hands on to its successor.
call_nextBuggy(chain, i, order_data) == [ok |-> TRUE, trace |-> <<>>]

\* A last link that fails the order for want of a successor.
call_nextStrict(chain, i, order_data) ==
    IF i + 1 <= Len(chain)
    THEN validate(chain, i + 1, order_data)
    ELSE [ok |-> FALSE, trace |-> <<>>]

\* IValidator._call_next
call_next(chain, i, order_data) ==
    IF i + 1 <= Len(chain)
    THEN validate(chain, i + 1, order_data)
    ELSE [ok |-> TRUE, trace |-> <<>>]

\* A validator that reports its failure and still hands on.
validateBuggy(chain, i, order_data) ==
    LET mine == Check(chain[i], order_data)
        rest == call_next(chain, i, order_data)
    IN  [ok |-> mine /\ rest.ok,
         trace |-> <<[check |-> chain[i], ok |-> mine]>> \o rest.trace]

\* OrderIdValidator / CustomerValidator / TotalValidator .validate, for the
\* validator at position i of the chain.
validate(chain, i, order_data) ==
    IF ~Check(chain[i], order_data)
    THEN [ok |-> FALSE, trace |-> <<[check |-> chain[i], ok |-> FALSE]>>]
    ELSE LET rest == call_next(chain, i, order_data)
         IN  [ok |-> rest.ok,
              trace |-> <<[check |-> chain[i], ok |-> TRUE]>> \o rest.trace]

\* OrderNotificationSystem._build_validator_chain
build_validator_chain == <<"order_id", "customer", "total">>

(***************************************************************************)
(* NotificationFactory                                                     *)
(***************************************************************************)
\* NotificationFactory.__init__
factory_init ==
    [k \in {"email", "sms", "push"} |->
        CASE k = "email" -> EmailNotifier
          [] k = "sms" -> SMSNotifier
          [] k = "push" -> PushNotifier]

\* A factory that resolves the built-in kinds only.
get_notifierBuggy(registry, notification_type) ==
    IF notification_type \notin DOMAIN registry \cap {"email", "sms", "push"}
    THEN [exc |-> "ValueError", notifier |-> EmailNotifier]
    ELSE [exc |-> "", notifier |-> registry[notification_type]]

\* NotificationFactory.get_notifier: [exc, notifier]
get_notifier(registry, notification_type) ==
    IF notification_type \notin DOMAIN registry
    THEN [exc |-> "ValueError", notifier |-> EmailNotifier]
    ELSE [exc |-> "", notifier |-> registry[notification_type]]

\* A registration that keeps the handler a kind already has (setdefault).
set_notifierBuggy(registry, notification_type, notifier) ==
    [k \in DOMAIN registry \cup {notification_type} |->
        IF k \in DOMAIN registry THEN registry[k] ELSE notifier]

\* self._notifiers[notification_type] = notifier
set_notifier(registry, notification_type, notifier) ==
    [k \in DOMAIN registry \cup {notification_type} |->
        IF k = notification_type THEN notifier ELSE registry[k]]

(***************************************************************************)
(* Observers.  sys = [sent, count, audit, notified] is the part of the     *)
(* state a dispatch writes: the logger's list, the analytics counts, the   *)
(* audit log, and the update calls made, in order.                         *)
(***************************************************************************)
\* An update that counts a kind once, however many results of it arrive.
AnalyticsUpdateBuggy(count, notification_data) ==
    LET notif_type == IF "type" \in DOMAIN notification_data
                      THEN notification_data["type"] ELSE "unknown"
    IN  [k \in DOMAIN count \cup {notif_type} |->
            IF k = notif_type THEN 1 ELSE count[k]]

\* AnalyticsObserver.update
AnalyticsUpdate(count, notification_data) ==
    LET notif_type == IF "type" \in DOMAIN notification_data
                      THEN notification_data["type"] ELSE "unknown"
    IN  [k \in DOMAIN count \cup {notif_type} |->
            IF k = notif_type
            THEN (IF k \in DOMAIN count THEN count[k] ELSE 0) + 1
            ELSE count[k]]

\* AuditObserver.update
AuditUpdate(audit, notification_data) ==
    Append(audit, [notification_type |-> Get(notification_data, "type"),
                   recipient |-> Get(notification_data, "to"),
                   status |-> "sent"])

RECURSIVE notify_observers(_, _, _, _)
\* A notification round that walks the observers from the last one attached.
notify_observersBuggy(obs, i, sys, notification_data) ==
    IF i > Len(obs)
    THEN sys
    ELSE LET o == obs[Len(obs) + 1 - i]
         IN  notify_observers(obs, i + 1,
                [sys EXCEPT
                   !.count = IF o = "analytics"
                             THEN AnalyticsUpdate(@, notification_data)
                             ELSE @,
                   !.audit = IF o = "audit"
                             THEN AuditUpdate(@, notification_data) ELSE @,
                   !.notified = Append(@, [observer |-> o,
                                           data |-> notification_data,
                                           logged |-> sys.sent])],
                notification_data)

\* OrderNotificationSystem._notify_observers, from observer i on.  Each
\* update call is recorded with the history the logger held at that moment.
notify_observers(obs, i, sys, notification_data) ==
    IF i > Len(obs)
    THEN sys
    ELSE notify_observers(obs, i + 1,
            [sys EXCEPT
               !.count = IF obs[i] = "analytics"
                         THEN AnalyticsUpdate(@, notification_data) ELSE @,
               !.audit = IF obs[i] = "audit"
                         THEN AuditUpdate(@, notification_data) ELSE @,
               !.notified = Append(@, [observer |-> obs[i],
                                       data |-> notification_data,
                                       logged |-> sys.sent])],
            notification_data)

\* A logger that drops a result it already holds.
logger_logBuggy(sent, notification_data) ==
    IF \E i \in 1..Len(sent) : sent[i] = notification_data
    THEN sent ELSE Append(sent, notification_data)

\* NotificationLogger.log
logger_log(sent, notification_data) == Append(sent, notification_data)

(***************************************************************************)
(* OrderNotificationSystem.process_order                                   *)
(***************************************************************************)
\* Lines 336-344: the subscripts of the header raise KeyError on a missing key.
HeaderRaises(order_data) ==
    \/ "order_id" \notin DOMAIN order_data
    \/ "customer" \notin DOMAIN order_data
    \/ "total" \notin DOMAIN order_data
    \/ "name" \notin DOMAIN order_data["customer"]

RECURSIVE DispatchLoop(_, _, _, _, _, _, _, _)
\* The try around the whole loop: the first ValueError ends the dispatch.
DispatchLoopBuggy(registry, obs, order_data, types, i, sys, env, attempts) ==
    IF i > Len(types)
    THEN [exc |-> "", sys |-> sys, env |-> env, attempts |-> attempts]
    ELSE LET g == get_notifier(registry, types[i])
         IN  IF g.exc /= ""
             THEN [exc |-> "", sys |-> sys, env |-> env,
                   attempts |-> Append(attempts,
                        [kind |-> types[i], resolved |-> FALSE,
                         exc |-> g.exc, value |-> EmptyDict])]
             ELSE LET r == Send(g.notifier, order_data["customer"],
                                order_data["order_id"], order_data["total"],
                                env)
                      att == Append(attempts,
                                [kind |-> types[i], resolved |-> TRUE,
                                 exc |-> r.exc, value |-> r.value])
                  IN  IF r.exc = ""
                      THEN DispatchLoop(registry, obs, order_data, types,
                              i + 1,
                              notify_observers(obs, 1,
                                 [sys EXCEPT
                                    !.sent = logger_log(@, r.value)],
                                 r.value),
                              r.env, att)
                      ELSE IF r.exc = "ValueError"
                      THEN DispatchLoop(registry, obs, order_data, types,
                              i + 1, sys, r.env, att)
                      ELSE [exc |-> r.exc, sys |-> sys, env |-> r.env,
                            attempts |-> att]

\* Lines 351-358: for notif_type in notification_types, from position i on.
\* attempts holds one record per channel tried: [kind, resolved, exc, value].
\* Returns [exc, sys, env, attempts]; exc is the exception that left the loop.
DispatchLoop(registry, obs, order_data, types, i, sys, env, attempts) ==
    IF i > Len(types)
    THEN [exc |-> "", sys |-> sys, env |-> env, attempts |-> attempts]
    ELSE LET g == get_notifier(registry, types[i])
         IN  IF g.exc /= ""
             THEN \* except ValueError: print, next channel
                  DispatchLoop(registry, obs, order_data, types, i + 1, sys,
                     env,
                     Append(attempts, [kind |-> types[i], resolved |-> FALSE,
                                       exc |-> g.exc, value |-> EmptyDict]))
             ELSE LET r == Send(g.notifier, order_data["customer"],
                                order_data["order_id"], order_data["total"],
                                env)
                      att == Append(attempts,
                                [kind |-> types[i], resolved |-> TRUE,
                                 exc |-> r.exc, value |-> r.value])
                  IN  IF r.exc = ""
                      THEN DispatchLoop(registry, obs, order_data, types,
                              i + 1,
                              notify_observers(obs, 1,
                                 [sys EXCEPT
                                    !.sent = logger_log(@, r.value)],
                                 r.value),
                              r.env, att)
                      ELSE IF r.exc = "ValueError"
                      THEN DispatchLoop(registry, obs, order_data, types,
                              i + 1, sys, r.env, att)
                      ELSE [exc |-> r.exc, sys |-> sys, env |-> r.env,
                            attempts |-> att]

\* The record of one process_order call.
\* outcome: "raised" (exc left the call), "rejected", "dispatched".
\* before: the history when the call began.
CallRecord(order_data, types, script, outcome, exc, validation, attempts, sends, notified) ==
    [op |-> "process_order", order |-> order_data, types |-> types,
     script |-> script, outcome |-> outcome, exc |-> exc,
     validation |-> validation, attempts |-> attempts, sends |-> sends,
     notified |-> notified, before |-> notifications_sent]

NoCall(op) ==
    [op |-> op, order |-> EmptyDict, types |-> <<>>, script |-> <<>>,
     outcome |-> "none", exc |-> "", validation |-> <<>>, attempts |-> <<>>,
     sends |-> <<>>, notified |-> <<>>, before |-> <<>>]

process_order(order_data, notification_types, script) ==
    IF HeaderRaises(order_data)
    THEN /\ call' = CallRecord(order_data, notification_types, script,
                               "raised", "KeyError", <<>>, <<>>, <<>>, <<>>)
         /\ UNCHANGED <<notifiers, notifications_sent, observers,
                        notification_count, audit_log>>
    ELSE LET v == validate(build_validator_chain, 1, order_data)
         IN  IF ~v.ok
             THEN /\ call' = CallRecord(order_data, notification_types,
                                script, "rejected", "", v.trace, <<>>, <<>>,
                                <<>>)
                  /\ UNCHANGED <<notifiers, notifications_sent, observers,
                                 notification_count, audit_log>>
             ELSE LET d == DispatchLoop(notifiers, observers, order_data,
                              notification_types, 1,
                              [sent |-> notifications_sent,
                               count |-> notification_count,
                               audit |-> audit_log, notified |-> <<>>],
                              [script |-> script, sends |-> <<>>], <<>>)
                  IN  /\ notifications_sent' = d.sys.sent
                      /\ notification_count' = d.sys.count
                      /\ audit_log' = d.sys.audit
                      /\ call' = CallRecord(order_data, notification_types,
                                    script,
                                    IF d.exc = "" THEN "dispatched"
                                    ELSE "raised",
                                    d.exc, v.trace, d.attempts, d.env.sends,
                                    d.sys.notified)
                      /\ UNCHANGED <<notifiers, observers>>

Idle == NoCall("idle")

\* OrderNotificationSystem.factory.register_notifier
register_notifier(notification_type, notifier) ==
    /\ notifiers' = set_notifier(notifiers, notification_type, notifier)
    /\ UNCHANGED call
    /\ UNCHANGED <<notifications_sent, observers, notification_count,
                   audit_log>>

\* OrderNotificationSystem.attach_observer
attach_observer(observer) ==
    /\ observers' = Append(observers, observer)
    /\ UNCHANGED call
    /\ UNCHANGED <<notifiers, notifications_sent, notification_count,
                   audit_log>>

\* self._validator_chain.validate(order_data), called on its own
validate_order(order_data) ==
    LET v == validate(build_validator_chain, 1, order_data)
    IN  /\ call' = [NoCall("validate") EXCEPT
                       !.order = order_data,
                       !.outcome = IF v.ok THEN "valid" ELSE "rejected",
                       !.validation = v.trace]
        /\ UNCHANGED <<notifiers, notifications_sent, observers,
                       notification_count, audit_log>>

(***************************************************************************)
(* Inputs.                                                                 *)
(***************************************************************************)
ABSENT == "<absent>"        \* marks a key the dict does not hold

\* The dict with the keys of `keys` whose value in `vals` is not ABSENT.
Dict(keys, vals) ==
    [k \in {keys[i] : i \in {j \in 1..Len(keys) : vals[j] /= ABSENT}} |->
        vals[CHOOSE i \in 1..Len(keys) : keys[i] = k]]

Customer(name, email, phone, device_id) ==
    Dict(<<"name", "email", "phone", "device_id">>,
         <<name, email, phone, device_id>>)

\* An order dict.  order_id is a string or ABSENT; customer and total are
\* given as a set holding the value, or the empty set for a missing key.
Order(order_id, customer, total) ==
    [k \in {x \in {"order_id", "customer", "total"} :
              \/ x = "order_id" /\ order_id /= ABSENT
              \/ x = "customer" /\ customer /= {}
              \/ x = "total" /\ total /= {}} |->
        CASE k = "order_id" -> order_id
          [] k = "customer" -> CHOOSE c \in customer : TRUE
          [] k = "total" -> CHOOSE t \in total : TRUE]

\* Orders handed to process_order: the complete order, with the phone given
\* or its key missing; one order failing each check; one failing all three;
\* and one whose header subscripts fail.
Orders ==
    {Order("O1", {Customer("Ana", "a@x.com", p, "DEV-1")}, {10}) :
        p \in {"600", ABSENT}}
    \cup {Order("", {Customer("Ana", "a@x.com", "600", "DEV-1")}, {10}),
          Order("O1", {Customer("Ana", NONE, "600", "DEV-1")}, {10}),
          Order("O1", {Customer("Ana", "a@x.com", "600", "DEV-1")}, {0}),
          Order("", {Customer("", NONE, "600", "DEV-1")}, {0}),
          Order(ABSENT, {Customer("Ana", "a@x.com", "600", "DEV-1")}, {10})}

\* Orders handed to the validator chain directly: any key may be missing.
ChainOrders ==
    {Order(id, c, t) :
        id \in {ABSENT, "", "O1"},
        c \in {{}} \cup {{Customer(n, e, "600", ABSENT)} :
                           n \in {ABSENT, "", "Ana"},
                           e \in {ABSENT, NONE, "a@x.com"}},
        t \in {{}, {-10}, {0}, {10}}}

Kinds == {"email", "sms", "premium", "flaky"}

RECURSIVE SeqsUpTo(_, _)
SeqsUpTo(S, n) ==
    IF n = 0 THEN {<<>>}
    ELSE LET shorter == SeqsUpTo(S, n - 1)
         IN  shorter \cup {Append(q, x) : q \in shorter, x \in S}

TypeLists == SeqsUpTo(Kinds, MaxTypes)

\* The external transport fails n times in a row with one exception class,
\* then delivers.
Scripts ==
    {[i \in 1..n |-> e] : n \in 0..MaxFails,
                          e \in {"ValueError", "ConnectionError"}}

PremiumGroup ==
    CompositeNotifier("Premium", <<EmailNotifier, SMSNotifier, PushNotifier>>)

Registrations ==
    {<<"premium", PremiumGroup>>,
     <<"flaky", RetryDecorator(ExternalNotifier, 3)>>,
     <<"flaky", LoggingDecorator(RetryDecorator(ExternalNotifier, 2))>>}

ObserverKinds == {"analytics", "audit"}

\* Whether notifier h can reach the external transport.
RECURSIVE UsesExternal(_)
UsesExternal(h) ==
    \/ h.tag = "external"
    \/ \E i \in 1..Len(h.members) : UsesExternal(h.members[i])

(***************************************************************************)
(* NotificationConfig.  config = [instance, initialized, heap, refs, last]: *)
(* the class attributes _instance (0 is None, k is the k-th object made)   *)
(* and _initialized, the attribute dict of every object made, the object   *)
(* each NotificationConfig() call returned, and the last operation.        *)
(***************************************************************************)
\* d with d[k] = v for every key k of `assigned`
SetAttrs(d, assigned) ==
    [k \in DOMAIN d \cup DOMAIN assigned |->
        IF k \in DOMAIN assigned THEN assigned[k] ELSE d[k]]

\* The values __init__ assigns.
DefaultConfig ==
    [max_retries |-> 3, timeout |-> 30, enable_logging |-> TRUE,
     batch_size |-> 10]

\* NotificationConfig.__new__: the class state after it; the object it
\* returns is the `instance` of that state.
NotificationConfig_new(c) ==
    IF c.instance = 0
    THEN [c EXCEPT !.heap = Append(@, EmptyDict),
                   !.instance = Len(c.heap) + 1]
    ELSE c

\* An __init__ that assigns the defaults on every construction.
NotificationConfig_initBuggy(c, self) ==
    [c EXCEPT !.heap[self] = SetAttrs(@, DefaultConfig),
              !.initialized = TRUE]

\* NotificationConfig.__init__ on the object `self`
NotificationConfig_init(c, self) ==
    IF ~c.initialized
    THEN [c EXCEPT !.heap[self] = SetAttrs(@, DefaultConfig),
                   !.initialized = TRUE]
    ELSE c

\* No buscar_libro call made yet.
NoSearch == [op |-> "none"]

\* No BuscadorPeliculas.buscar call made yet.
NoConsulta == [op |-> "none"]

config_start ==
    [instance |-> 0, initialized |-> FALSE, heap |-> <<>>, refs |-> <<>>,
     last |-> [op |-> "none"]]

\* NotificationConfig(): __new__, then __init__ on what __new__ returned
construct ==
    LET made == NotificationConfig_new(config)
        self == made.instance
    IN  config' = [NotificationConfig_init(made, self) EXCEPT
                      !.refs = Append(@, self),
                      !.last = [op |-> "construct", before |-> config.heap,
                                was_initialized |-> config.initialized]]

\* Values the caller assigns to the attributes of a configuration object.
ConfigValues ==
    [max_retries |-> {3, 5}, timeout |-> {30, 60},
     enable_logging |-> {TRUE, FALSE}, batch_size |-> {10, 20}]

\* ref.attr = value, ref being what an earlier construction returned
set_attribute(ref, attr, value) ==
    config' = [config EXCEPT
                  !.heap[ref] = SetAttrs(@, [k \in {attr} |-> value]),
                  !.last = [op |-> "set_attribute", attr |-> attr]]

(***************************************************************************)
(* Library search: buscar_libro of SistemaBiblioteca (if/elif) and of       *)
(* SistemaBibliotecaOCP (strategies).  A str is the sequence of its         *)
(* characters, so that lower() and the substring test `in` are computed.    *)
(***************************************************************************)
UpperCase == <<"A", "B", "E", "R", "T", "U">>
LowerCase == <<"a", "b", "e", "r", "t", "u">>

LowerChar(c) ==
    IF \E i \in 1..Len(UpperCase) : UpperCase[i] = c
    THEN LowerCase[CHOOSE i \in 1..Len(UpperCase) : UpperCase[i] = c]
    ELSE c

\* str.lower
lower(str) == [i \in 1..Len(str) |-> LowerChar(str[i])]

\* needle in hay, for two str
Contains(needle, hay) ==
    \E i \in 0..(Len(hay) - Len(needle)) :
        SubSeq(hay, i + 1, i + Len(needle)) = needle

StrTrue == <<"t", "r", "u", "e">>

Libro(id, titulo, autor, isbn, disponible) ==
    [id |-> id, titulo |-> titulo, autor |-> autor, isbn |-> isbn,
     disponible |-> disponible]

\* A title search that compares the value as typed.
BusquedaPorTituloBuggy(lista, valor) ==
    LET matches(libro) == Contains(valor, lower(libro.titulo))
    IN  SelectSeq(lista, matches)

BusquedaPorTitulo(lista, valor) ==
    LET matches(libro) == Contains(lower(valor), lower(libro.titulo))
    IN  SelectSeq(lista, matches)

BusquedaPorAutor(lista, valor) ==
    LET matches(libro) == Contains(lower(valor), lower(libro.autor))
    IN  SelectSeq(lista, matches)

BusquedaPorISBN(lista, valor) ==
    LET matches(libro) == libro.isbn = valor
    IN  SelectSeq(lista, matches)

\* valor is a str: isinstance(valor, str) holds
BusquedaPorDisponibilidad(lista, valor) ==
    LET disponible == lower(valor) = StrTrue
        matches(libro) == libro.disponible = disponible
    IN  SelectSeq(lista, matches)

\* SistemaBibliotecaOCP.estrategias
estrategias ==
    [titulo |-> "BusquedaPorTitulo", autor |-> "BusquedaPorAutor",
     isbn |-> "BusquedaPorISBN", disponible |-> "BusquedaPorDisponibilidad"]

\* estrategia.buscar(libros, valor)
buscar(estrategia, lista, valor) ==
    CASE estrategia = "BusquedaPorTitulo" -> BusquedaPorTitulo(lista, valor)
      [] estrategia = "BusquedaPorAutor" -> BusquedaPorAutor(lista, valor)
      [] estrategia = "BusquedaPorISBN" -> BusquedaPorISBN(lista, valor)
      [] estrategia = "BusquedaPorDisponibilidad" ->
            BusquedaPorDisponibilidad(lista, valor)

\* SistemaBibliotecaOCP.buscar_libro
SistemaBibliotecaOCP_buscar_libro(lista, criterio, valor) ==
    IF criterio \in DOMAIN estrategias
    THEN buscar(estrategias[criterio], lista, valor)
    ELSE <<>>

\* SistemaBiblioteca.buscar_libro, the if/elif original
SistemaBiblioteca_buscar_libro(lista, criterio, valor) ==
    LET porTitulo(libro) == Contains(lower(valor), lower(libro.titulo))
        porAutor(libro) == Contains(lower(valor), lower(libro.autor))
        porIsbn(libro) == libro.isbn = valor
        disponible == lower(valor) = StrTrue
        porDisponible(libro) == libro.disponible = disponible
    IN  CASE criterio = "titulo" -> SelectSeq(lista, porTitulo)
          [] criterio = "autor" -> SelectSeq(lista, porAutor)
          [] criterio = "isbn" -> SelectSeq(lista, porIsbn)
          [] criterio = "disponible" -> SelectSeq(lista, porDisponible)
          [] OTHER -> <<>>

\* One buscar_libro(criterio, valor) put to both systems over the same books.
buscar_libro(criterio, valor) ==
    /\ busqueda' =
          [op |-> "buscar_libro", criterio |-> criterio, valor |-> valor,
           ocp |-> SistemaBibliotecaOCP_buscar_libro(libros, criterio, valor),
           original |-> SistemaBiblioteca_buscar_libro(libros, criterio,
                                                       valor)]
    /\ UNCHANGED <<libros, loans>>

\* Titles, authors and ISBNs of the books on the shelves.
Isbn(digit) == [i \in 1..10 |-> digit]

Catalogo ==
    {<<<<"A", "b", "a">>, <<"A", "n", "a">>, Isbn("1")>>,
     <<<<"B", "a", "b">>, <<"B", "e", "a">>, Isbn("2")>>,
     <<<<"a", "b">>, <<"a", "n", "a">>, Isbn("1")>>}

\* Lists of up to MaxLibros books, ids counting from 1 as contador_libro
\* does, each book on loan or not.
Estantes ==
    {[i \in 1..Len(q) |->
        Libro(i, q[i][1][1], q[i][1][2], q[i][1][3], q[i][2])] :
        q \in SeqsUpTo(Catalogo \X BOOLEAN, MaxLibros)}

Criterios == {"titulo", "autor", "isbn", "disponible", "editorial"}

Valores ==
    {<<>>, <<"a">>, <<"A", "B">>, <<"A", "n", "a">>, StrTrue,
     <<"T", "R", "U", "E">>, <<"f", "a", "l", "s", "e">>, Isbn("1")}

(***************************************************************************)
(* Movie search (src/tarea2/movie_search.py).  A Python value whose type   *)
(* the code tests or trips over is a record [type, value]; a str value is  *)
(* the sequence of its characters.  What requests.get, raise_for_status    *)
(* and response.json do is the input `transport`.  An exception is a       *)
(* record [exc, mensaje, codigo_error]; exc = "" means a normal return.    *)
(***************************************************************************)
Py(type, chars, num, items, entries) ==
    [type |-> type, chars |-> chars, num |-> num, items |-> items,
     entries |-> entries]

PyStr(chars) == Py("str", chars, 0, <<>>, <<>>)
PyInt(n) == Py("int", <<>>, n, <<>>, <<>>)
PyFloat(hundredths) == Py("float", <<>>, hundredths, <<>>, <<>>)
PyList(items) == Py("list", <<>>, 0, items, <<>>)
PyDict(d) == Py("dict", <<>>, 0, <<>>, d)
PyNone == Py("NoneType", <<>>, 0, <<>>, <<>>)

\* not v, for a wrapped value
IsFalsy(v) ==
    \/ v.type = "NoneType"
    \/ v.type = "str" /\ v.chars = <<>>
    \/ v.type = "list" /\ v.items = <<>>
    \/ v.type = "dict" /\ DOMAIN v.entries = {}
    \/ v.type \in {"int", "float"} /\ v.num = 0

\* str.strip, the whitespace being the blank
strip(chars) ==
    LET inked == {i \in 1..Len(chars) : chars[i] /= " "}
    IN  IF inked = {} THEN <<>>
        ELSE SubSeq(chars, CHOOSE i \in inked : \A j \in inked : i <= j,
                    CHOOSE i \in inked : \A j \in inked : i >= j)

\* A validation that measures the title as typed.
validar_tituloBuggy(titulo) ==
    titulo.type = "str" /\ Len(titulo.chars) >= 2

\* BuscadorPeliculas._validar_titulo
validar_titulo(titulo) ==
    titulo.type = "str" /\ Len(strip(titulo.chars)) >= 2

\* The classes an exception class derives from, itself included.
Bases(cls) ==
    CASE cls = "Timeout" -> {"Timeout", "RequestException"}
      [] cls = "ConnectTimeout" ->
            {"ConnectTimeout", "ConnectionError", "Timeout",
             "RequestException"}
      [] cls = "ConnectionError" -> {"ConnectionError", "RequestException"}
      [] cls = "HTTPError" -> {"HTTPError", "RequestException"}
      [] cls = "TooManyRedirects" -> {"TooManyRedirects", "RequestException"}
      [] cls = "JSONDecodeError" ->
            {"JSONDecodeError", "RequestException", "ValueError"}
      [] OTHER -> {cls}

ApiException(mensaje, codigo_error) ==
    [exc |-> "ApiException", mensaje |-> mensaje,
     codigo_error |-> codigo_error]

\* An exception of another class, with str(e) = mensaje
Error(cls, mensaje) == [exc |-> cls, mensaje |-> mensaje, codigo_error |-> {}]

NoError == [exc |-> "", mensaje |-> <<>>, codigo_error |-> {}]

\* TMDBApiClient._hacer_peticion.  transport = [get, status, json, body]: the
\* class requests.get raises ("" for none), the status of the response, the
\* class response.json raises, and the decoded body.
\* Returns [error, value].
hacer_peticion(transport) ==
    LET raised == IF transport.get /= "" THEN transport.get
                  ELSE IF transport.status >= 400 THEN "HTTPError"
                  ELSE transport.json
    IN  IF raised = ""
        THEN [error |-> NoError, value |-> transport.body]
        ELSE [value |-> PyNone,
              error |->
                IF "Timeout" \in Bases(raised)
                THEN ApiException(<<"Timeout al conectar con TMDB API">>,
                                  {408})
                ELSE IF "ConnectionError" \in Bases(raised)
                THEN ApiException(<<"Error de conexión con TMDB API">>,
                                  {503})
                ELSE IF "HTTPError" \in Bases(raised)
                THEN ApiException(<<"Error HTTP: ", ToString(transport.status)>>,
                                  {transport.status})
                ELSE IF "RequestException" \in Bases(raised)
                THEN ApiException(<<"Error en la petición: ", raised>>, {})
                ELSE Error(raised, <<raised>>)]

\* TMDBApiClient.search_movie
search_movie(query, transport) == hacer_peticion(transport)

Digits == <<"0", "1", "2", "3", "4", "5", "6", "7", "8", "9">>

IsDigit(c) == \E d \in 1..Len(Digits) : Digits[d] = c

DigitValue(c) == (CHOOSE d \in 1..Len(Digits) : Digits[d] = c) - 1

RECURSIVE Decimal(_)
\* the number a sequence of digits writes
Decimal(chars) ==
    IF chars = <<>> THEN 0
    ELSE 10 * Decimal(SubSeq(chars, 1, Len(chars) - 1))
         + DigitValue(chars[Len(chars)])

\* int(chars) for digits and other characters: [exc, value]
ParseInt(chars) ==
    IF chars /= <<>> /\ \A k \in 1..Len(chars) : IsDigit(chars[k])
    THEN [exc |-> "", value |-> Decimal(chars)]
    ELSE [exc |-> "ValueError", value |-> 0]

\* round(x, 1) of a float given in hundredths, in tenths
RoundTenths(hundredths) == (hundredths + 5) \div 10

ItemGet(item, key, default) ==
    IF key \in DOMAIN item.entries THEN item.entries[key] ELSE default

image_base_url == "https://image.tmdb.org/t/p/w500"

\* The body of the loop of _convertir_a_peliculas for one item:
\* [exc, value], value the Pelicula made.
ConvertItem(item) ==
    IF item.type /= "dict"
    THEN [exc |-> "AttributeError", value |-> <<>>]
    ELSE
    LET fecha == ItemGet(item, "release_date", PyNone)
        slice == IF Len(fecha.chars) < 4 THEN fecha.chars
                 ELSE SubSeq(fecha.chars, 1, 4)
        poster == ItemGet(item, "poster_path", PyNone)
        voto == ItemGet(item, "vote_average", PyFloat(0))
    IN  IF ~IsFalsy(fecha) /\ fecha.type /= "str"
        THEN [exc |-> "TypeError", value |-> <<>>]
        ELSE IF voto.type \notin {"int", "float"}
        THEN [exc |-> "TypeError", value |-> <<>>]
        ELSE [exc |-> "",
              value |->
                [id |-> ItemGet(item, "id", PyInt(0)),
                 titulo |-> ItemGet(item, "title", PyStr(<<"Sin título">>)),
                 anio |-> IF IsFalsy(fecha) \/ ParseInt(slice).exc /= ""
                          THEN PyNone
                          ELSE PyInt(ParseInt(slice).value),
                 sinopsis |-> ItemGet(item, "overview",
                                 PyStr(<<"Sin sinopsis disponible">>)),
                 poster_url |-> IF IsFalsy(poster) THEN PyNone
                                ELSE PyStr(<<image_base_url>> \o poster.chars),
                 calificacion |-> IF voto.type = "float"
                                  THEN PyFloat(10 * RoundTenths(voto.num))
                                  ELSE voto]]

RECURSIVE convertir_a_peliculas(_, _, _)
\* BuscadorPeliculas._convertir_a_peliculas, from item i on: [exc, value]
convertir_a_peliculas(resultados, i, peliculas) ==
    IF resultados.type = "NoneType"
    THEN [exc |-> "TypeError", value |-> <<>>]
    ELSE IF i > Len(resultados.items)
    THEN [exc |-> "", value |-> peliculas]
    ELSE LET made == ConvertItem(resultados.items[i])
         IN  IF made.exc /= ""
             THEN [exc |-> made.exc, value |-> <<>>]
             ELSE convertir_a_peliculas(resultados, i + 1,
                                        Append(peliculas, made.value))

\* The try block of buscar: [error, value, cliente], cliente being what
\* search_movie raised.
BuscarTry(titulo, transport) ==
    LET response == search_movie(titulo, transport)
    IN  IF response.error.exc /= ""
        THEN [error |-> response.error, value |-> <<>>,
              cliente |-> response.error]
        ELSE IF response.value.type /= "dict"
        THEN [error |-> Error("AttributeError", <<"get">>), value |-> <<>>,
              cliente |-> NoError]
        ELSE LET made == convertir_a_peliculas(
                            ItemGet(response.value, "results",
                                    PyList(<<>>)), 1, <<>>)
             IN  [error |-> IF made.exc = "" THEN NoError
                            ELSE Error(made.exc, <<made.exc>>),
                  value |-> made.value, cliente |-> NoError]

\* BuscadorPeliculas.buscar: [error, value, peticiones, cliente, interno],
\* peticiones the API calls made and interno what the try block raised.
BuscadorPeliculas_buscar(titulo, transport) ==
    IF ~validar_titulo(titulo)
    THEN [error |-> Error("ValueError",
                          <<"El título debe tener al menos 2 caracteres">>),
          value |-> <<>>, peticiones |-> 0, cliente |-> NoError,
          interno |-> NoError]
    ELSE LET t == BuscarTry(titulo, transport)
         IN  [error |-> IF t.error.exc \in {"", "ApiException"}
                        THEN t.error
                        ELSE ApiException(<<"Error inesperado: ">>
                                          \o t.error.mensaje, {}),
              value |-> t.value, peticiones |-> 1, cliente |-> t.cliente,
              interno |-> t.error]

\* One buscar(titulo) against a transport behaving as `transport`, recorded
buscar_pelicula(titulo, transport) ==
    LET r == BuscadorPeliculas_buscar(titulo, transport)
    IN  consulta' = [op |-> "buscar", titulo |-> titulo,
                     transport |-> transport, error |-> r.error,
                     value |-> r.value, peticiones |-> r.peticiones,
                     cliente |-> r.cliente, interno |-> r.interno]

Titulos ==
    {PyStr(<<>>), PyStr(<<" ">>), PyStr(<<"a">>), PyStr(<<" ", "a", " ">>),
     PyStr(<<"a", "b">>), PyStr(<<" ", "a", "b">>),
     PyStr(<<"a", " ", "b", " ">>), PyInt(42), PyNone}

\* Entries of 'results': a complete one, an empty one, one whose date does
\* not start with a year, one whose date is a number, one without a vote,
\* and one that is not an object.
Items ==
    {PyDict([id |-> PyInt(1), title |-> PyStr(<<"U", "p">>),
             release_date |-> PyStr(<<"2", "0", "0", "9", "-", "0", "5">>),
             overview |-> PyStr(<<"A", "i", "r">>),
             poster_path |-> PyStr(<<"/", "p">>),
             vote_average |-> PyFloat(736)]),
     PyDict(<<>>),
     PyDict([id |-> PyInt(2), release_date |-> PyStr(<<"s", "o", "o", "n">>),
             vote_average |-> PyInt(7)]),
     PyDict([id |-> PyInt(3), release_date |-> PyInt(2009)]),
     PyDict([id |-> PyInt(4), vote_average |-> PyNone]),
     PyNone}

Transport(get, status, json, body) ==
    [get |-> get, status |-> status, json |-> json, body |-> body]

Transports ==
    {Transport(e, 0, "", PyNone) :
        e \in {"Timeout", "ConnectTimeout", "ConnectionError",
               "TooManyRedirects"}}
    \cup {Transport("", c, "", PyNone) : c \in {404, 500}}
    \cup {Transport("", 200, e, PyNone) :
            e \in {"JSONDecodeError", "ValueError"}}
    \cup {Transport("", 200, "", PyDict([results |-> PyList(q)])) :
            q \in SeqsUpTo(Items, MaxResultados)}
    \cup {Transport("", 200, "", b) :
            b \in {PyDict(<<>>), PyDict([results |-> PyNone]),
                   PyList(<<>>), PyNone}}

(***************************************************************************)
(* Library operations of SistemaBiblioteca (ejercicio2_srp.py) and          *)
(* SistemaBibliotecaOCP (ejercicio1_ocp.py).  b = [sistema, libros,         *)
(* prestamos, contador_libro, contador_prestamo, guardados, notificaciones] *)
(* is the state of one system with the number of saves made and the        *)
(* notifications sent.  A message is the sequence of its pieces.  Each      *)
(* operation returns [b, mensaje].                                          *)
(***************************************************************************)
Sistemas == {"SistemaBiblioteca", "SistemaBibliotecaOCP"}

\* Prestamo.__init__: the id attribute is assigned from libro_id
Prestamo(id, libro_id, usuario, fecha) ==
    [id |-> libro_id, libro_id |-> libro_id, usuario |-> usuario,
     fecha |-> fecha, devuelto |-> FALSE]

\* datetime.now().strftime("%Y-%m-%d")
Hoy == "hoy"

ErrorMsg(text) == <<"Error:", text>>

\* mensaje.startswith('Error:')
IsErrorMsg(mensaje) == mensaje /= <<>> /\ mensaje[1] = "Error:"

\* _guardar_en_archivo / repositorio.guardar
guardar(b) == [b EXCEPT !.guardados = @ + 1]

notificar(b, notice) == [b EXCEPT !.notificaciones = Append(@, notice)]

\* not s or len(s) < n
TooShort(str, n) == str = <<>> \/ Len(str) < n

\* An agregar_libro that takes the next book id before it validates.
agregar_libroBuggy(b, titulo, autor, isbn) ==
    LET c == [b EXCEPT !.contador_libro = @ + 1]
    IN  IF TooShort(titulo, 2)
        THEN [b |-> c, mensaje |-> ErrorMsg(" Título inválido")]
        ELSE IF TooShort(autor, 3)
        THEN [b |-> c, mensaje |-> ErrorMsg(" Autor inválido")]
        ELSE IF TooShort(isbn, 10)
        THEN [b |-> c, mensaje |-> ErrorMsg(" ISBN inválido")]
        ELSE LET added == guardar(
                    [c EXCEPT !.libros =
                        Append(@, Libro(b.contador_libro, titulo, autor,
                                        isbn, TRUE))])
             IN  [b |-> IF b.sistema = "SistemaBiblioteca"
                        THEN notificar(added, <<"nuevo_libro">> \o titulo)
                        ELSE added,
                  mensaje |-> <<"Libro '">> \o titulo
                              \o <<"' agregado exitosamente">>]

agregar_libro(b, titulo, autor, isbn) ==
    IF TooShort(titulo, 2)
    THEN [b |-> b, mensaje |-> ErrorMsg(" Título inválido")]
    ELSE IF TooShort(autor, 3)
    THEN [b |-> b, mensaje |-> ErrorMsg(" Autor inválido")]
    ELSE IF TooShort(isbn, 10)
    THEN [b |-> b, mensaje |-> ErrorMsg(" ISBN inválido")]
    ELSE LET added == guardar(
                [b EXCEPT !.libros =
                      Append(@, Libro(b.contador_libro, titulo, autor, isbn,
                                      TRUE)),
                   !.contador_libro = @ + 1])
         IN  [b |-> IF b.sistema = "SistemaBiblioteca"
                    THEN notificar(added, <<"nuevo_libro">> \o titulo)
                    ELSE added,
              mensaje |-> <<"Libro '">> \o titulo
                          \o <<"' agregado exitosamente">>]

\* for l in libros: if l.id == libro_id ... break: the position, 0 for none
FindFirst(list, id) ==
    IF \E i \in 1..Len(list) : list[i].id = id
    THEN CHOOSE i \in 1..Len(list) :
            /\ list[i].id = id
            /\ \A j \in 1..(i - 1) : list[j].id /= id
    ELSE 0

\* The loan made by the successful branch of realizar_prestamo.
Lend(b, at, libro_id, usuario) ==
    notificar(
        guardar([b EXCEPT
                    !.prestamos = Append(@, Prestamo(b.contador_prestamo,
                                             libro_id, usuario, Hoy)),
                    !.contador_prestamo = @ + 1,
                    !.libros[at].disponible = FALSE]),
        <<"prestamo">> \o usuario \o <<":">> \o b.libros[at].titulo)

\* A realizar_prestamo that lends a book whether it is on the shelf or not.
realizar_prestamoBuggy(b, libro_id, usuario) ==
    LET at == FindFirst(b.libros, libro_id)
    IN  IF TooShort(usuario, 3)
        THEN [b |-> b, mensaje |-> ErrorMsg(" Nombre de usuario inválido")]
        ELSE IF at = 0
        THEN [b |-> b, mensaje |-> ErrorMsg(" Libro no encontrado")]
        ELSE [b |-> Lend(b, at, libro_id, usuario),
              mensaje |-> <<"Préstamo realizado a ">> \o usuario]

realizar_prestamo(b, libro_id, usuario) ==
    LET at == FindFirst(b.libros, libro_id)
    IN  IF TooShort(usuario, 3)
        THEN [b |-> b, mensaje |-> ErrorMsg(" Nombre de usuario inválido")]
        ELSE IF at = 0
        THEN [b |-> b, mensaje |-> ErrorMsg(" Libro no encontrado")]
        ELSE IF ~b.libros[at].disponible
        THEN [b |-> b, mensaje |-> ErrorMsg(" Libro no disponible")]
        ELSE [b |-> Lend(b, at, libro_id, usuario),
              mensaje |-> <<"Préstamo realizado a ">> \o usuario]

\* A devolver_libro that marks the loan and leaves the book as it is.
devolver_libroBuggy(b, prestamo_id) ==
    LET at == FindFirst(b.prestamos, prestamo_id)
    IN  IF at = 0
        THEN [b |-> b, mensaje |-> ErrorMsg(" Préstamo no encontrado")]
        ELSE IF b.prestamos[at].devuelto
        THEN [b |-> b, mensaje |-> ErrorMsg(" Libro ya devuelto")]
        ELSE [b |-> guardar([b EXCEPT !.prestamos[at].devuelto = TRUE]),
              mensaje |-> <<"Libro devuelto exitosamente">>]

devolver_libro(b, prestamo_id) ==
    LET at == FindFirst(b.prestamos, prestamo_id)
    IN  IF at = 0
        THEN [b |-> b, mensaje |-> ErrorMsg(" Préstamo no encontrado")]
        ELSE IF b.prestamos[at].devuelto
        THEN [b |-> b, mensaje |-> ErrorMsg(" Libro ya devuelto")]
        ELSE LET shelf == FindFirst(b.libros, b.prestamos[at].libro_id)
                 back == IF shelf = 0 THEN b
                         ELSE [b EXCEPT !.libros[shelf].disponible = TRUE]
             IN  [b |-> guardar([back EXCEPT !.prestamos[at].devuelto = TRUE]),
                  mensaje |-> <<"Libro devuelto exitosamente">>]

\* The state of the system as one record, and the step that installs the
\* state an operation left, recording the operation.
Biblioteca ==
    [sistema |-> efectos.sistema, libros |-> libros, prestamos |-> prestamos,
     contador_libro |-> contador_libro,
     contador_prestamo |-> contador_prestamo,
     guardados |-> efectos.guardados,
     notificaciones |-> efectos.notificaciones]

Efectos(b) ==
    [sistema |-> b.sistema, guardados |-> b.guardados,
     notificaciones |-> b.notificaciones]

Returns(op, r, arg) ==
    /\ libros' = r.b.libros
    /\ prestamos' = r.b.prestamos
    /\ contador_libro' = r.b.contador_libro
    /\ contador_prestamo' = r.b.contador_prestamo
    /\ efectos' = Efectos(r.b)
    /\ operacion' = [op |-> op, arg |-> arg, mensaje |-> r.mensaje,
                     antes |-> Biblioteca]
    /\ UNCHANGED busqueda

NoOperacion == [op |-> "none"]

\* SistemaBibliotecaOCP() / SistemaBiblioteca(validador, repositorio, ...)
efectos_start(sistema) ==
    [sistema |-> sistema, guardados |-> 0, notificaciones |-> <<>>]

\* Arguments of agregar_libro: the books of the catalogue, and a title, an
\* author and an ISBN too short, each with the rest in order.
Altas ==
    Catalogo
    \cup {<<<<"A">>, <<"A", "n", "a">>, Isbn("1")>>,
          <<<<>>, <<"A", "n", "a">>, Isbn("1")>>,
          <<<<"A", "b", "a">>, <<"A", "n">>, Isbn("1")>>,
          <<<<"A", "b", "a">>, <<"A", "n", "a">>, <<"1", "2", "3">>>>}

Usuarios == {<<"E", "v", "a">>, <<"E", "v">>, <<>>}

RECURSIVE PrestamosDe(_)
\* The loans that took the books of `lista` that are not on the shelf.
PrestamosDe(lista) ==
    IF lista = <<>> THEN <<>>
    ELSE LET l == lista[Len(lista)]
             rest == PrestamosDe(SubSeq(lista, 1, Len(lista) - 1))
         IN  IF l.disponible THEN rest
             ELSE Append(rest, Prestamo(Len(rest) + 1, l.id,
                                        <<"E", "v", "a">>, Hoy))

(***************************************************************************)
(* Specifications.                                                         *)
(***************************************************************************)
Init ==
    /\ notifiers = factory_init
    /\ notifications_sent = <<>>
    /\ observers = <<>>
    /\ notification_count = <<>>
    /\ audit_log = <<>>
    /\ call = Idle
    /\ config = config_start
    /\ libros = <<>>
    /\ busqueda = NoSearch
    /\ consulta = NoConsulta
    /\ prestamos = <<>>
    /\ contador_libro = 1
    /\ contador_prestamo = 1
    /\ efectos = efectos_start("SistemaBibliotecaOCP")
    /\ operacion = NoOperacion

\* The caller does one thing at a time: an operation begins when the last
\* one has returned and its outcome has been taken (Resume).
RegisterNotifier ==
    /\ call = Idle
    /\ \E reg \in Registrations : register_notifier(reg[1], reg[2])
    /\ UNCHANGED outside

AttachObserver ==
    /\ call = Idle
    /\ \E o \in ObserverKinds :
          /\ \A i \in 1..Len(observers) : observers[i] /= o
          /\ attach_observer(o)
    /\ UNCHANGED outside

ProcessOrder ==
    /\ call = Idle
    /\ \E order_data \in Orders, types \in TypeLists, script \in Scripts :
          /\ Len(notifications_sent) + Len(types) <= MaxHistory
          /\ script /= <<>> =>
                \E i \in 1..Len(types) :
                    /\ types[i] \in DOMAIN notifiers
                    /\ UsesExternal(notifiers[types[i]])
          /\ process_order(order_data, types, script)
    /\ UNCHANGED outside

ValidateOrder ==
    /\ call = Idle
    /\ \E order_data \in ChainOrders : validate_order(order_data)
    /\ UNCHANGED outside

Resume ==
    /\ call /= Idle
    /\ call' = Idle
    /\ UNCHANGED <<notifiers, notifications_sent, observers,
                   notification_count, audit_log>>
    /\ UNCHANGED outside

Next == RegisterNotifier \/ AttachObserver \/ ProcessOrder \/ Resume

Spec == Init /\ [][Next]_vars

\* The validator chain on its own, over every shape of order dict.
NextChain == ValidateOrder \/ Resume

SpecChain == Init /\ [][NextChain]_vars

\* Chains linked with set_next from the three validators: every order of
\* one, two or three of them.
ValidatorKinds == {"order_id", "customer", "total"}

Chains ==
    {c \in SeqsUpTo(ValidatorKinds, Cardinality(ValidatorKinds)) :
        /\ c /= <<>>
        /\ \A i, j \in 1..Len(c) : i /= j => c[i] /= c[j]}

\* head.validate(order_data) on the chain `chain`, recorded
validate_chain(chain, order_data) ==
    LET v == validate(chain, 1, order_data)
    IN  /\ call' = [op |-> "validate_chain", chain |-> chain,
                    order |-> order_data, ok |-> v.ok, validation |-> v.trace]
        /\ UNCHANGED <<notifiers, notifications_sent, observers,
                       notification_count, audit_log>>

ValidateChain ==
    /\ call = Idle
    /\ \E chain \in Chains, order_data \in ChainOrders :
          validate_chain(chain, order_data)
    /\ UNCHANGED outside

NextLinks == ValidateChain \/ Resume

SpecLinks == Init /\ [][NextLinks]_vars

\* process_order over every shape of order dict, on the built-in channels.
IntakeTypes ==
    {<<"email">>, <<"sms">>, <<"push">>, <<"email", "sms">>, <<"sms", "push">>}

\* Every shape of order dict, and the complete order with each of the phone
\* number and the device token given or missing.
IntakeOrders ==
    ChainOrders
    \cup {Order("O1", {Customer("Ana", "a@x.com", p, d)}, {10}) :
            p \in {"600", ABSENT}, d \in {"DEV-1", ABSENT}}

IntakeOrder ==
    /\ call = Idle
    /\ \E order_data \in IntakeOrders, types \in IntakeTypes :
          /\ Len(notifications_sent) + Len(types) <= MaxHistory
          /\ process_order(order_data, types, <<>>)
    /\ UNCHANGED outside

NextIntake == IntakeOrder \/ Resume

SpecIntake == Init /\ [][NextIntake]_vars

\* The configuration singleton on its own.
Construct ==
    /\ Len(config.refs) < MaxConstructions
    /\ construct
    /\ UNCHANGED <<order_system, library, movies>>

SetAttribute ==
    /\ \E r \in 1..Len(config.refs), attr \in DOMAIN ConfigValues :
          \E value \in ConfigValues[attr] :
              set_attribute(config.refs[r], attr, value)
    /\ UNCHANGED <<order_system, library, movies>>

NextConfig == Construct \/ SetAttribute

SpecConfig == Init /\ [][NextConfig]_vars

\* The two library systems searched over the same list of books.
InitBusqueda ==
    /\ notifiers = factory_init
    /\ notifications_sent = <<>>
    /\ observers = <<>>
    /\ notification_count = <<>>
    /\ audit_log = <<>>
    /\ call = Idle
    /\ config = config_start
    /\ libros \in Estantes
    /\ busqueda = NoSearch
    /\ consulta = NoConsulta
    /\ prestamos = PrestamosDe(libros)
    /\ contador_libro = Len(libros) + 1
    /\ contador_prestamo = Len(prestamos) + 1
    /\ efectos = [efectos_start("SistemaBibliotecaOCP") EXCEPT
                     !.guardados = Len(libros) + Len(prestamos)]
    /\ operacion = NoOperacion

BuscarLibro ==
    /\ \E criterio \in Criterios, valor \in Valores :
          buscar_libro(criterio, valor)
    /\ UNCHANGED <<order_system, config, movies>>

NextBusqueda == BuscarLibro

SpecBusqueda == InitBusqueda /\ [][NextBusqueda]_vars

\* The dispatch with its listeners in place: an AnalyticsObserver and an
\* AuditObserver are attached, in either order, before the first order is
\* processed, and the caller's notifier is wrapped in a RetryDecorator of any
\* max_retries.
RetryLimits == {-1, 0, 1, 2}

HistoryRegistrations ==
    {<<"flaky", RetryDecorator(ExternalNotifier, max_retries)>> :
        max_retries \in RetryLimits}

HistoryTypes == SeqsUpTo({"email", "sms", "flaky"}, MaxTypes)

HistoryOrders ==
    {Order("O1", {Customer("Ana", "a@x.com", p, "DEV-1")}, {10}) :
        p \in {"600", ABSENT}}
    \cup {Order("O1", {Customer("Ana", "a@x.com", "600", "DEV-1")}, {0})}

AttachListener ==
    /\ call = Idle
    /\ notifications_sent = <<>>
    /\ \E o \in ObserverKinds :
          /\ \A i \in 1..Len(observers) : observers[i] /= o
          /\ attach_observer(o)
    /\ UNCHANGED outside

RegisterRetry ==
    /\ call = Idle
    /\ \E reg \in HistoryRegistrations : register_notifier(reg[1], reg[2])
    /\ UNCHANGED outside

DispatchOrder ==
    /\ call = Idle
    /\ {observers[i] : i \in 1..Len(observers)} = ObserverKinds
    /\ \E order_data \in HistoryOrders, types \in HistoryTypes,
          script \in Scripts :
          /\ Len(notifications_sent) + Len(types) <= MaxHistory
          /\ script /= <<>> =>
                \E i \in 1..Len(types) :
                    /\ types[i] \in DOMAIN notifiers
                    /\ UsesExternal(notifiers[types[i]])
                    /\ notifiers[types[i]].max >= 1
          /\ process_order(order_data, types, script)
    /\ UNCHANGED outside

NextHistory == AttachListener \/ RegisterRetry \/ DispatchOrder \/ Resume

SpecHistory == Init /\ [][NextHistory]_vars

\* The library system on its own: books are added, lent and returned, one
\* call at a time.
InitBiblioteca ==
    /\ notifiers = factory_init
    /\ notifications_sent = <<>>
    /\ observers = <<>>
    /\ notification_count = <<>>
    /\ audit_log = <<>>
    /\ call = Idle
    /\ config = config_start
    /\ libros = <<>>
    /\ busqueda = NoSearch
    /\ consulta = NoConsulta
    /\ prestamos = <<>>
    /\ contador_libro = 1
    /\ contador_prestamo = 1
    /\ \E sistema \in Sistemas : efectos = efectos_start(sistema)
    /\ operacion = NoOperacion

AgregarLibro ==
    /\ operacion = NoOperacion
    /\ \E alta \in Altas :
          /\ Returns("agregar_libro",
                     agregar_libro(Biblioteca, alta[1], alta[2], alta[3]),
                     <<0, alta[1]>>)
          /\ Len(libros') <= MaxLibros
    /\ UNCHANGED <<order_system, config, movies>>

RealizarPrestamo ==
    /\ operacion = NoOperacion
    /\ \E libro_id \in 1..(MaxLibros + 1), usuario \in Usuarios :
          /\ Returns("realizar_prestamo",
                     realizar_prestamo(Biblioteca, libro_id, usuario),
                     <<libro_id, usuario>>)
          /\ Len(prestamos') <= MaxPrestamos
    /\ UNCHANGED <<order_system, config, movies>>

DevolverLibro ==
    /\ operacion = NoOperacion
    /\ \E prestamo_id \in 1..(MaxLibros + 1) :
          Returns("devolver_libro", devolver_libro(Biblioteca, prestamo_id),
                  <<prestamo_id, <<>>>>)
    /\ UNCHANGED <<order_system, config, movies>>

\* The caller takes the message and goes on to the next call.
Continuar ==
    /\ operacion /= NoOperacion
    /\ operacion' = NoOperacion
    /\ UNCHANGED <<order_system, config, movies, libros, busqueda, prestamos,
                   contador_libro, contador_prestamo, efectos>>

NextBiblioteca == AgregarLibro \/ RealizarPrestamo \/ DevolverLibro \/ Continuar

SpecBiblioteca == InitBiblioteca /\ [][NextBiblioteca]_vars

\* The movie search on its own.
Buscar ==
    /\ consulta = NoConsulta
    /\ \E titulo \in Titulos, transport \in Transports :
          buscar_pelicula(titulo, transport)
    /\ UNCHANGED <<order_system, config, library>>

\* The interface shows the outcome and asks for the next title.
SiguienteTitulo ==
    /\ consulta /= NoConsulta
    /\ consulta' = NoConsulta
    /\ UNCHANGED <<order_system, config, library>>

NextPeliculas == Buscar \/ SiguienteTitulo

SpecPeliculas == Init /\ [][NextPeliculas]_vars

\* The factory on its own: handlers of every shape registered under new and
\* built-in kinds, and kinds resolved, each call recorded in `call`.
FactoryHandlers ==
    {SMSNotifier, RetryDecorator(EmailNotifier, 3),
     LoggingDecorator(PushNotifier), PremiumGroup}

FactoryKinds == {"email", "premium", "fax"}

ResolveKinds == FactoryKinds \cup {"sms", "push", "telegram"}

\* factory.register_notifier(notification_type, notifier), recorded
factory_register(notification_type, notifier) ==
    /\ notifiers' = set_notifier(notifiers, notification_type, notifier)
    /\ call' = [op |-> "register_notifier", kind |-> notification_type,
                notifier |-> notifier, before |-> notifiers]
    /\ UNCHANGED <<notifications_sent, observers, notification_count,
                   audit_log>>

\* factory.get_notifier(notification_type), recorded
factory_resolve(notification_type) ==
    LET g == get_notifier(notifiers, notification_type)
    IN  /\ call' = [op |-> "get_notifier", kind |-> notification_type,
                    exc |-> g.exc, notifier |-> g.notifier]
        /\ UNCHANGED <<notifiers, notifications_sent, observers,
                       notification_count, audit_log>>

FactoryRegister ==
    /\ call = Idle
    /\ \E k \in FactoryKinds, h \in FactoryHandlers :
          factory_register(k, h)
    /\ UNCHANGED outside

FactoryResolve ==
    /\ call = Idle
    /\ \E k \in ResolveKinds : factory_resolve(k)
    /\ UNCHANGED outside

NextFactory == FactoryRegister \/ FactoryResolve \/ Resume

SpecFactory == Init /\ [][NextFactory]_vars

(***************************************************************************)
(* Properties.                                                             *)
(***************************************************************************)
InProcessOrder == call.op = "process_order"

\* The order of the call passed the validator chain.
Validated == InProcessOrder /\ call.outcome \in {"dispatched", "raised"}
                            /\ call.validation /= <<>>

\* What the call appended to the history.
NewEntries ==
    IF Len(notifications_sent) >= Len(call.before)
    THEN SubSeq(notifications_sent, Len(call.before) + 1,
                Len(notifications_sent))
    ELSE <<>>

Delivered(a) == a.resolved /\ a.exc = ""

RECURSIVE ValuesOf(_)
ValuesOf(attempts) ==
    IF attempts = <<>> THEN <<>>
    ELSE <<Head(attempts).value>> \o ValuesOf(Tail(attempts))

Registered(kind) == kind \in DOMAIN notifiers

\* C1: on a validated order, a failing handler does not keep the channels
\* requested after it from being attempted: every requested channel is
\* attempted, whatever exception an earlier channel's send raised.
C1_FailureIsolation ==
    Validated => Len(call.attempts) = Len(call.types)

\* C2: for a valid order, process_order yields exactly one result per
\* requested channel kind that has a registered handler, in request order.
C2_OneResultPerRegisteredChannel ==
    Validated =>
        LET wanted == SelectSeq(call.types, Registered)
        IN  /\ Len(NewEntries) = Len(wanted)
            /\ \A i \in 1..Len(NewEntries) :
                  \E j \in 1..Len(call.attempts) :
                      /\ call.attempts[j].kind = wanted[i]
                      /\ Delivered(call.attempts[j])
                      /\ call.attempts[j].value = NewEntries[i]

\* C3: a requested channel kind without a registered handler yields no
\* result (the history grows by the delivered channels' results only and the
\* observers are notified of those only), its failure does not leave
\* process_order, and the channels after it are still attempted.
C3_UnregisteredChannelSkipped ==
    InProcessOrder =>
        /\ \A i \in 1..Len(call.attempts) :
              LET a == call.attempts[i]
              IN  /\ a.resolved <=> Registered(a.kind)
                  /\ a.kind = call.types[i]
                  /\ ~a.resolved =>
                        /\ a.value = EmptyDict
                        /\ i < Len(call.types) => Len(call.attempts) > i
                        /\ i = Len(call.attempts) => call.exc = ""
        /\ NewEntries = ValuesOf(SelectSeq(call.attempts, Delivered))
        /\ Len(call.notified) =
              Len(observers) * Len(SelectSeq(call.attempts, Delivered))
        /\ \A n \in 1..Len(call.notified) :
              \E i \in 1..Len(call.attempts) :
                  /\ Delivered(call.attempts[i])
                  /\ call.notified[n].data = call.attempts[i].value

\* C3 witness: an unregistered kind was requested first and the registered
\* kind after it was delivered.
C3_Witness ==
    /\ InProcessOrder
    /\ Len(call.attempts) = 2
    /\ ~call.attempts[1].resolved
    /\ Delivered(call.attempts[2])
    /\ Len(NewEntries) = 1
    /\ observers /= <<>>

\* C4: an order whose identifier is empty (or missing) fails validation at
\* the identifier check, whatever its customer and total: the identifier
\* check is the only one that reports.
C4_EmptyIdFailsAtIdCheck ==
    (call.op = "validate" /\ Falsy(Get(call.order, "order_id"))) =>
        /\ call.outcome = "rejected"
        /\ call.validation = <<[check |-> "order_id", ok |-> FALSE]>>

\* C4 witness: the identifier is empty, the customer is missing and the total
\* is negative, and the identifier check alone reported.
C4_Witness ==
    /\ call.op = "validate"
    /\ "order_id" \in DOMAIN call.order /\ call.order["order_id"] = ""
    /\ "customer" \notin DOMAIN call.order
    /\ "total" \in DOMAIN call.order /\ call.order["total"] < 0
    /\ Len(call.validation) = 1

\* The order fails one of the three checks.
FailsValidation(order_data) ==
    ~(OrderIdCheck(order_data) /\ CustomerCheck(order_data)
      /\ TotalCheck(order_data))

\* C5: when the order fails validation, process_order resolves no handler,
\* invokes no send, leaves the history as it was and notifies no observer,
\* whatever channels were requested.
C5_RejectedOrderNotDispatched ==
    (InProcessOrder /\ FailsValidation(call.order)) =>
        /\ call.outcome /= "dispatched"
        /\ call.attempts = <<>>
        /\ call.sends = <<>>
        /\ call.notified = <<>>
        /\ notifications_sent = call.before

\* C5 witness: a rejected order that asked for a registered channel, with an
\* observer attached and a history that already holds a result.
C5_Witness ==
    /\ InProcessOrder
    /\ call.outcome = "rejected"
    /\ \E i \in 1..Len(call.types) : Registered(call.types[i])
    /\ observers /= <<>>
    /\ notifications_sent /= <<>>

\* Position of the first check the order fails, 0 when it passes all three.
FirstFailing(order_data) ==
    IF ~OrderIdCheck(order_data) THEN 1
    ELSE IF ~CustomerCheck(order_data) THEN 2
    ELSE IF ~TotalCheck(order_data) THEN 3
    ELSE 0

\* C6: the chain runs identifier, customer, total in that order and stops at
\* the first failing check: the checks that report are exactly those up to
\* the first failing one, and only that one reports a failure.
C6_ChainStopsAtFirstFailure ==
    call.op = "validate" =>
        LET k == FirstFailing(call.order)
            tr == call.validation
        IN  /\ Len(tr) = IF k = 0 THEN 3 ELSE k
            /\ \A i \in 1..Len(tr) :
                  /\ tr[i].check = <<"order_id", "customer", "total">>[i]
                  /\ tr[i].ok <=> i /= k
            /\ call.outcome = "rejected" <=> k /= 0

\* C6 witness: the customer check and the total check both fail, and the
\* chain reported the identifier and the customer only.
C6_Witness ==
    /\ call.op = "validate"
    /\ OrderIdCheck(call.order)
    /\ ~CustomerCheck(call.order)
    /\ ~TotalCheck(call.order)
    /\ Len(call.validation) = 2

ExternalResult == [type |-> "external", to |-> NONE]

IsRetryOfExternal(h, max_retries) ==
    h.tag = "retry" /\ h.max = max_retries /\ h.members[1].tag = "external"

\* C7: a retry-decorated handler whose wrapped send fails twice and then
\* succeeds returns the successful result of the third attempt when
\* max_retries = 3, and raises the second failure when max_retries = 2.
C7_RetryTwoFailures ==
    InProcessOrder =>
        \A n \in 1..Len(call.sends) :
            LET e == call.sends[n]
            IN  /\ (IsRetryOfExternal(e.handler, 3) /\ Len(e.script) = 2) =>
                      /\ e.exc = ""
                      /\ e.value = ExternalResult
                      /\ Len(e.calls) = 3
                      /\ e.calls[1].exc = e.script[1]
                      /\ e.calls[2].exc = e.script[2]
                      /\ e.calls[3] = [exc |-> "", value |-> ExternalResult]
                /\ (IsRetryOfExternal(e.handler, 2) /\ Len(e.script) = 2) =>
                      /\ e.exc = e.script[2]
                      /\ Len(e.calls) = 2
                      /\ e.calls[1].exc = e.script[1]
                      /\ e.calls[2].exc = e.script[2]

\* C7 witness: the transport failed twice and the handler with
\* max_retries = 3 delivered on its third attempt.
C7_Witness ==
    /\ InProcessOrder
    /\ \E n \in 1..Len(call.sends) :
          /\ IsRetryOfExternal(call.sends[n].handler, 3)
          /\ Len(call.sends[n].script) = 2
          /\ call.sends[n].exc = ""
    /\ notifications_sent /= <<>>

\* C8: a composite's send invokes its members in the order they were added,
\* each at most once and none after a member that raised; when it returns,
\* every member was invoked once and 'results' holds exactly the members'
\* results in that order.
C8_CompositeAggregatesInOrder ==
    InProcessOrder =>
        \A n \in 1..Len(call.sends) :
            LET e == call.sends[n]
                k == Len(e.calls)
            IN  e.handler.tag = "composite" =>
                  /\ k <= Len(e.handler.members)
                  /\ n > k
                  /\ \A i \in 1..k :
                        /\ call.sends[n - k + i - 1].handler
                              = e.handler.members[i]
                        /\ call.sends[n - k + i - 1].exc = e.calls[i].exc
                        /\ call.sends[n - k + i - 1].value = e.calls[i].value
                        /\ i < k => e.calls[i].exc = ""
                  /\ e.exc = "" =>
                        /\ k = Len(e.handler.members)
                        /\ e.value.type = "composite"
                        /\ e.value.group = e.handler.name
                        /\ e.value.results = [i \in 1..k |-> e.calls[i].value]
                  /\ e.exc /= "" => k >= 1 /\ e.calls[k].exc = e.exc

\* C8 witness: the three-member group returned a result.
C8_Witness ==
    /\ InProcessOrder
    /\ \E n \in 1..Len(call.sends) :
          /\ call.sends[n].handler.tag = "composite"
          /\ call.sends[n].exc = ""
          /\ Len(call.sends[n].value.results) = 3
          /\ call.sends[n].value.results[1].type = "email"
          /\ call.sends[n].value.results[3].type = "push"

\* C9: the history only grows at its end: across every step the old history
\* is a prefix of the new one, and a process_order call appends the results
\* of its delivered channels in the order their sends completed.
C9_HistoryAppendOnly ==
    [][/\ IsPrefix(notifications_sent, notifications_sent')
       /\ (call'.op = "process_order" /\ call.op /= "process_order") =>
             notifications_sent' = notifications_sent
                \o ValuesOf(SelectSeq(call'.attempts, Delivered))]_vars

\* C9 witness: a call appended to a history that already held a result
\* equal to one it appended.
C9_Witness ==
    /\ InProcessOrder
    /\ call.before /= <<>>
    /\ Len(notifications_sent) > Len(call.before)
    /\ notifications_sent[Len(notifications_sent)] = call.before[1]

\* Number of leaf results (results of the built-in and external notifiers)
\* a result holds: a composite's result holds those of its 'results'.
RECURSIVE LeafCount(_)
RECURSIVE LeafCountAll(_)
LeafCountAll(results) ==
    IF results = <<>> THEN 0
    ELSE LeafCount(Head(results)) + LeafCountAll(Tail(results))

LeafCount(result) ==
    IF "type" \notin DOMAIN result THEN 0
    ELSE IF result["type"] = "composite" THEN LeafCountAll(result["results"])
    ELSE 1

IsLeafDelivery(e) ==
    e.exc = "" /\ e.handler.tag \in {"email", "sms", "push", "external"}

\* C10: every send that completed successfully during process_order, the
\* sends of a composite's members included, has its result in the history
\* exactly once when process_order ends.
C10_EverySuccessfulSendRecorded ==
    InProcessOrder =>
        LeafCountAll(NewEntries) = Len(SelectSeq(call.sends, IsLeafDelivery))


\* C11: every result a process_order call produces is appended to the
\* history first and then handed to every attached observer exactly once,
\* in the order the observers were attached: the update calls of the call
\* are, result by result in delivery order, one per observer in attach
\* order, each made when the history already ended with that result.
C11_LoggedThenForwardedInAttachOrder ==
    InProcessOrder =>
        LET delivered == SelectSeq(call.attempts, Delivered)
            k == Len(observers)
        IN  /\ Len(call.notified) = Len(delivered) * k
            /\ \A j \in 1..Len(delivered) : \A o \in 1..k :
                  LET n == call.notified[(j - 1) * k + o]
                  IN  /\ n.observer = observers[o]
                      /\ n.data = delivered[j].value
                      /\ n.logged = call.before
                                    \o ValuesOf(SubSeq(delivered, 1, j))

\* Two observers attached, two results delivered by one call.
C11_Witness ==
    /\ InProcessOrder
    /\ Len(observers) = 2
    /\ Len(SelectSeq(call.attempts, Delivered)) = 2
    /\ Len(call.notified) = 4
    /\ call.notified[1].data /= call.notified[3].data

\* C12: an order that passed the validator chain always reaches Dispatched:
\* process_order returns normally whatever the channels did; and a rejected
\* order is terminal: no handler is resolved or sent to for it.
C12_ValidatedOrderReachesDispatched ==
    /\ Validated => call.outcome = "dispatched" /\ call.exc = ""
    /\ (InProcessOrder /\ call.outcome = "rejected") =>
          call.attempts = <<>> /\ call.sends = <<>>

\* C13: get_notifier raises ValueError exactly when the kind has no
\* registered handler and returns the handler registered under the kind
\* otherwise; 'email', 'sms' and 'push' resolve in every state.
C13_ResolveFailsExactlyWhenUnregistered ==
    /\ call.op = "get_notifier" =>
          /\ call.exc \in {"", "ValueError"}
          /\ call.exc = "ValueError" <=> ~Registered(call.kind)
          /\ call.exc = "" => call.notifier = notifiers[call.kind]
    /\ \A k \in {"email", "sms", "push"} :
          Registered(k) /\ get_notifier(notifiers, k).exc = ""

\* An unregistered kind was asked for while another kind had been added.
C13_Witness ==
    /\ call.op = "get_notifier"
    /\ call.kind = "fax"
    /\ call.exc = "ValueError"
    /\ Registered("premium")

\* C14: after register_notifier(kind, h), get_notifier(kind) returns exactly
\* h, whatever the shape of h; every other kind resolves as it did before;
\* and no step other than a registration under a kind changes what the kind
\* resolves to.
C14_RegistrationTransparent ==
    [][/\ call'.op = "register_notifier" =>
            /\ get_notifier(notifiers', call'.kind) =
                  [exc |-> "", notifier |-> call'.notifier]
            /\ \A k \in ResolveKinds \ {call'.kind} :
                  get_notifier(notifiers', k) = get_notifier(notifiers, k)
       /\ \A k \in ResolveKinds :
            get_notifier(notifiers', k) /= get_notifier(notifiers, k)
                => call'.op = "register_notifier" /\ call'.kind = k]_vars

\* A decorated handler replaced the built-in one under 'email' while a
\* composite stayed registered under another kind.
C14_Witness ==
    /\ call.op = "register_notifier"
    /\ call.kind = "email"
    /\ call.notifier = RetryDecorator(EmailNotifier, 3)
    /\ call.before["email"] = EmailNotifier
    /\ Registered("premium") /\ notifiers["premium"] = PremiumGroup
    /\ notifiers["email"] = call.notifier

\* The order has a non-empty identifier, a customer with a name and an
\* e-mail address, and a total above zero.
WellFormedOrder(order_data) ==
    /\ "order_id" \in DOMAIN order_data
    /\ order_data["order_id"] \notin {"", NONE}
    /\ "customer" \in DOMAIN order_data
    /\ "name" \in DOMAIN order_data["customer"]
    /\ order_data["customer"]["name"] \notin {"", NONE}
    /\ "email" \in DOMAIN order_data["customer"]
    /\ order_data["customer"]["email"] \notin {"", NONE}
    /\ "total" \in DOMAIN order_data
    /\ order_data["total"] > 0

\* C15: the validator chain accepts an order only if its identifier is
\* non-empty, its customer has a name and a delivery address and its total is
\* above zero; process_order logs nothing, sends nothing and updates no
\* observer for an order that violates one of these.
C15_AcceptedOnlyIfWellFormed ==
    InProcessOrder =>
        /\ Validated => WellFormedOrder(call.order)
        /\ ~WellFormedOrder(call.order) =>
              /\ notifications_sent = call.before
              /\ call.sends = <<>>
              /\ call.notified = <<>>

\* An order whose only fault is a total of zero came after an order that was
\* dispatched: it was rejected at the last check and the history kept as is.
C15_Witness ==
    /\ InProcessOrder
    /\ call.outcome = "rejected"
    /\ Len(call.validation) = 3
    /\ call.order["total"] = 0
    /\ call.before /= <<>>
    /\ notifications_sent = call.before

\* The key of the customer dict a built-in handler reads its recipient from.
AddressKey(kind) ==
    CASE kind = "email" -> "email"
      [] kind = "sms" -> "phone"
      [] kind = "push" -> "device_id"

\* C16: for a valid order dispatched on a built-in kind, the result the
\* handler returns has that kind as its type and the customer's address for
\* the kind (e-mail address, phone number, device token) as its recipient,
\* and it is the one entry the history gains for that channel.
C16_BuiltInResultKindAndRecipient ==
    (InProcessOrder /\ Validated) =>
        /\ \A i \in 1..Len(call.attempts) :
              LET a == call.attempts[i]
              IN  (a.kind \in {"email", "sms", "push"} /\ Delivered(a)) =>
                     /\ a.value["type"] = a.kind
                     /\ AddressKey(a.kind) \in DOMAIN call.order["customer"]
                     /\ a.value["to"] =
                           call.order["customer"][AddressKey(a.kind)]
        /\ NewEntries = ValuesOf(SelectSeq(call.attempts, Delivered))

\* One call delivered on 'sms' and on 'push'.
C16_Witness ==
    /\ InProcessOrder
    /\ call.types = <<"sms", "push">>
    /\ Len(NewEntries) = 2
    /\ NewEntries[1]["to"] = "600"
    /\ NewEntries[2]["to"] = "DEV-1"

\* C17: a RetryDecorator with max_retries >= 1 invokes the wrapped send at
\* most max_retries times; every invocation but the last one made had
\* failed, so none follows a success; it returns the result of the first
\* success, and it raises only when max_retries invocations in a row
\* failed, the exception being that of the last one.
C17_RetryBoundedByMaxRetries ==
    InProcessOrder =>
        \A n \in 1..Len(call.sends) :
            LET e == call.sends[n]
            IN  (e.handler.tag = "retry" /\ e.handler.max >= 1) =>
                   /\ Len(e.calls) \in 1..e.handler.max
                   /\ \A c \in 1..(Len(e.calls) - 1) : e.calls[c].exc /= ""
                   /\ e.exc = e.calls[Len(e.calls)].exc
                   /\ e.exc = "" => e.value = e.calls[Len(e.calls)].value
                   /\ e.exc /= "" => Len(e.calls) = e.handler.max

\* The transport failed three times: the decorator with max_retries = 3
\* raised after its third invocation.
C17_Witness ==
    /\ InProcessOrder
    /\ \E n \in 1..Len(call.sends) :
          /\ IsRetryOfExternal(call.sends[n].handler, 3)
          /\ Len(call.sends[n].script) = 3
          /\ Len(call.sends[n].calls) = 3
          /\ call.sends[n].exc /= ""

\* C18: a validator without a next link passes the order on as accepted:
\* the verdict of a chain is the conjunction of the checks of exactly the
\* validators linked in it, so the last link's pass is the chain's pass and
\* a validator that is not linked has no say.
C18_VerdictIsConjunctionOfLinkedChecks ==
    call.op = "validate_chain" =>
        /\ call.ok = (\A i \in 1..Len(call.chain) :
                         Check(call.chain[i], call.order))
        /\ \A n \in 1..Len(call.validation) :
              call.validation[n].check = call.chain[n]

\* A chain of the customer check alone accepted an order that the two
\* validators left out would have rejected.
C18_Witness ==
    /\ call.op = "validate_chain"
    /\ call.chain = <<"customer">>
    /\ call.ok
    /\ ~OrderIdCheck(call.order)
    /\ ~TotalCheck(call.order)

\* C19: every NotificationConfig() returns the one instance, and a
\* construction made after the first one leaves every attribute value as it
\* found it, the values assigned since the first construction included.
C19_SingletonKeepsChangedValues ==
    /\ Len(config.heap) <= 1
    /\ \A i \in 1..Len(config.refs) : config.refs[i] = config.instance
    /\ (config.last.op = "construct" /\ config.last.was_initialized) =>
          config.heap = config.last.before

\* A second construction made after all four values were changed.
C19_Witness ==
    /\ config.last.op = "construct"
    /\ Len(config.refs) >= 2
    /\ config.heap[config.refs[2]] =
          [max_retries |-> 5, timeout |-> 60, enable_logging |-> FALSE,
           batch_size |-> 20]

\* C20: for every list of books, criterion and str value, the strategy
\* version of buscar_libro returns the same books in the same order as the
\* if/elif original, the empty list for an unknown criterion included.
C20_StrategySearchEqualsOriginal ==
    busqueda.op = "buscar_libro" =>
        /\ busqueda.ocp = busqueda.original
        /\ busqueda.criterio \notin DOMAIN estrategias =>
              busqueda.ocp = <<>>

\* A title search typed in capitals found both books of the list, in the
\* order of the list.
C20_Witness ==
    /\ busqueda.op = "buscar_libro"
    /\ busqueda.criterio = "titulo"
    /\ busqueda.valor = <<"A", "B">>
    /\ Len(libros) = 2
    /\ libros[1].titulo /= libros[2].titulo
    /\ busqueda.ocp = libros

\* The title is a str with two characters or more between its first and its
\* last character that is not a blank.
TitleLongEnough(titulo) ==
    /\ titulo.type = "str"
    /\ \E i, j \in 1..Len(titulo.chars) :
          i < j /\ titulo.chars[i] /= " " /\ titulo.chars[j] /= " "

\* C21: buscar ends with a result, a ValueError or an ApiException.  A
\* title that is not a str of two characters or more once stripped raises
\* ValueError and no API call is made; otherwise one call is made, the
\* ApiException of the client comes out as it was raised, and any other
\* exception of the search or of the conversion comes out as ApiException.
C21_BuscarFailsOnlyWithValueErrorOrApiException ==
    consulta.op = "buscar" =>
        /\ consulta.error.exc \in {"", "ValueError", "ApiException"}
        /\ consulta.error.exc = "ValueError"
              <=> ~TitleLongEnough(consulta.titulo)
        /\ ~TitleLongEnough(consulta.titulo) => consulta.peticiones = 0
        /\ TitleLongEnough(consulta.titulo) => consulta.peticiones = 1
        /\ consulta.cliente.exc = "ApiException" =>
              consulta.error = consulta.cliente
        /\ consulta.interno.exc \notin {"", "ApiException"} =>
              /\ consulta.error.exc = "ApiException"
              /\ consulta.error.mensaje =
                    <<"Error inesperado: ">> \o consulta.interno.mensaje
        /\ consulta.interno.exc = "" <=> consulta.error.exc \in {"", "ValueError"}

\* A title with blanks around two letters was searched and the second entry
\* of the answer could not be converted.
C21_Witness ==
    /\ consulta.op = "buscar"
    /\ consulta.titulo = PyStr(<<" ", "a", "b">>)
    /\ consulta.interno.exc = "TypeError"
    /\ consulta.error.exc = "ApiException"
    /\ consulta.transport.body.type = "dict"
    /\ Len(consulta.transport.body.entries["results"].items) = 2

(***************************************************************************)
(* The library system: loans.                                              *)
(***************************************************************************)

\* The positions of the loans of `list` that carry `id` and are not returned.
ActiveWithId(list, id) ==
    {i \in 1..Len(list) : list[i].id = id /\ ~list[i].devuelto}

\* The positions of the loans of `list` of book `libro_id` not returned.
ActiveLoansOf(list, libro_id) ==
    {i \in 1..Len(list) : list[i].libro_id = libro_id /\ ~list[i].devuelto}

\* C22: every active loan can be returned: devolver_libro called with the id
\* of a loan whose devuelto is False marks that loan returned and makes its
\* book available again.
C22_ActiveLoanCanBeReturned ==
    operacion.op = "devolver_libro" =>
        \A i \in ActiveWithId(operacion.antes.prestamos, operacion.arg[1]) :
            /\ prestamos[i].devuelto
            /\ \A j \in 1..Len(libros) :
                  libros[j].id = prestamos[i].libro_id => libros[j].disponible

\* C23: loans receive pairwise distinct identifiers: the id of a loan made by
\* realizar_prestamo is the value of contador_prestamo at its creation, and
\* no two loans of prestamos share an id.
C23_LoanIdsDistinct ==
    /\ \A i, j \in 1..Len(prestamos) :
          prestamos[i].id = prestamos[j].id => i = j
    /\ (operacion.op = "realizar_prestamo" /\ ~IsErrorMsg(operacion.mensaje))
          => prestamos[Len(prestamos)].id = operacion.antes.contador_prestamo

\* C24: a book has disponible = False if and only if prestamos holds a loan
\* of that book with devuelto = False.
C24_UnavailableIffActiveLoan ==
    \A j \in 1..Len(libros) :
        ~libros[j].disponible <=> ActiveLoansOf(prestamos, libros[j].id) /= {}

\* A book has been lent and returned, another is out: both sides of the
\* equivalence occur after a devolver_libro.
C24_Witness ==
    /\ operacion.op = "devolver_libro"
    /\ ~IsErrorMsg(operacion.mensaje)
    /\ \E j \in 1..Len(libros) :
          /\ libros[j].disponible
          /\ \E i \in 1..Len(prestamos) :
                prestamos[i].libro_id = libros[j].id /\ prestamos[i].devuelto
    /\ \E j \in 1..Len(libros) : ~libros[j].disponible

\* C25: a book is never lent twice at once: there is at most one loan with
\* devuelto = False per book, and realizar_prestamo by a valid user on a book
\* with disponible = False answers "Error: Libro no disponible" and makes no
\* loan.
C25_AtMostOneActiveLoanPerBook ==
    /\ \A j \in 1..Len(libros) :
          Cardinality(ActiveLoansOf(prestamos, libros[j].id)) <= 1
    /\ operacion.op = "realizar_prestamo" =>
          LET at == FindFirst(operacion.antes.libros, operacion.arg[1])
          IN  (at /= 0 /\ ~operacion.antes.libros[at].disponible) =>
                 /\ prestamos = operacion.antes.prestamos
                 /\ IsErrorMsg(operacion.mensaje)
                 /\ ~TooShort(operacion.arg[2], 3) =>
                       operacion.mensaje = ErrorMsg(" Libro no disponible")

\* A valid user asked for a book that was out, and was refused.
C25_Witness ==
    /\ operacion.op = "realizar_prestamo"
    /\ ~TooShort(operacion.arg[2], 3)
    /\ LET at == FindFirst(operacion.antes.libros, operacion.arg[1])
       IN  at /= 0 /\ ~operacion.antes.libros[at].disponible
    /\ operacion.mensaje = ErrorMsg(" Libro no disponible")

\* C26: failed library operations change nothing: when agregar_libro,
\* realizar_prestamo or devolver_libro returns a message starting with
\* "Error:", the books, the loans, both counters and every flag are as
\* before, and nothing was saved or notified.
C26_ErrorChangesNothing ==
    (operacion.op /= "none" /\ IsErrorMsg(operacion.mensaje)) =>
        Biblioteca = operacion.antes

\* agregar_libro has failed on a library that holds books and loans.
C26_Witness ==
    /\ operacion.op = "agregar_libro"
    /\ IsErrorMsg(operacion.mensaje)
    /\ libros /= <<>>
    /\ prestamos /= <<>>

(***************************************************************************)
(* Listeners and the history.                                              *)
(***************************************************************************)
RECURSIVE SumCounts(_)
\* sum(notification_count.values())
SumCounts(count) ==
    IF DOMAIN count = {} THEN 0
    ELSE LET k == CHOOSE x \in DOMAIN count : TRUE
         IN  count[k] + SumCounts([x \in DOMAIN count \ {k} |-> count[x]])

\* C27: with an AnalyticsObserver and an AuditObserver attached before the
\* first dispatch, after any sequence of process_order calls the sum of the
\* analytics counts, the length of the audit log and the number of entries
\* of the history are equal.
C27_ListenersMatchHistory ==
    {observers[i] : i \in 1..Len(observers)} = ObserverKinds =>
        /\ SumCounts(notification_count) = Len(notifications_sent)
        /\ Len(audit_log) = Len(notifications_sent)

\* Two calls have appended to the history, both listeners heard of both
\* results, and results of two kinds are counted.
C27_Witness ==
    /\ InProcessOrder
    /\ call.before /= <<>>
    /\ Len(notifications_sent) > Len(call.before)
    /\ Cardinality(DOMAIN notification_count) = 2
    /\ Len(audit_log) = 2

\* C28: every entry of the history is the result of a send the wrapped
\* handler completed: a RetryDecorator of any max_retries returns a result
\* only when a send it invoked returned one, so no empty result is logged
\* or forwarded.
C28_RetryResultIsASend ==
    /\ \A n \in 1..Len(notifications_sent) :
          notifications_sent[n] /= EmptyDict
    /\ InProcessOrder =>
          /\ \A n \in 1..Len(call.sends) :
                LET e == call.sends[n]
                IN  (e.handler.tag = "retry" /\ e.exc = "") =>
                       /\ e.calls /= <<>>
                       /\ e.calls[Len(e.calls)].exc = ""
                       /\ e.value = e.calls[Len(e.calls)].value
          /\ \A n \in 1..Len(call.notified) :
                call.notified[n].data /= EmptyDict

====
